---- MODULE Spec2Model ----
(***************************************************************************)
(* The node store of one content type (gridsome/lib/store/ContentType.js). *)
(*                                                                         *)
(* A node is a record [id, uid, loki, val]:                                *)
(*   id    the caller-meaningful id                                        *)
(*   uid   the $uid handle                                                 *)
(*   loki  the $loki row number the collection assigns at insertion        *)
(*   val   the content of the node's fields                                *)
(* The collection is the set of stored nodes plus its row counter.         *)
(***************************************************************************)
EXTENDS Integers, Sequences, FiniteSets, TLC

VARIABLES data, maxId, listeners, last, emitted, pc, reg, step, hist, schema

\* the node store
storeVars == <<data, maxId, listeners, last, emitted>>
\* a run of createSchema
schemaVars == <<pc, reg, step, hist, schema>>
vars == <<data, maxId, listeners, last, emitted, pc, reg, step, hist, schema>>

(* ---------------------------------------------------------------- bounds *)

\* rows the collection may hand out (caps the calls that reach insert)
MaxLoki == 3
\* distinct $uid handles
MaxUid == 3

(* ------------------------------------------------------------ the values *)

\* an absent id (undefined)
NoId == "none"
\* an absent $uid (undefined)
NoUid == 0
\* an absent $loki (undefined)
NoLoki == 0
\* absent field content
NoVal == "none"

Ids == {"a", "b"}
Uids == 1..MaxUid
Vals == {"v1", "v2"}

\* null / undefined where a node is expected
NoNode == [id |-> NoId, uid |-> NoUid, loki |-> NoLoki, val |-> NoVal]

\* the two events a listener of this model is registered for
ListenedEvents == {"add", "update"}

\* what the caller passes to addNode: an id and field content
AddOptions == [id : Ids, uid : {NoUid}, val : Vals]

\* what the caller passes to updateNode: an id, a $uid, or both
UpdateOptions == [id : Ids \cup {NoId}, uid : Uids \cup {NoUid}, val : Vals]

\* what the caller passes to removeNode or getNode: an id string or a query
ById(i) == [id |-> i, uid |-> NoUid, val |-> NoVal]
ByUid(u) == [id |-> NoId, uid |-> u, val |-> NoVal]
Queries == {ById(i) : i \in Ids} \cup {ByUid(u) : u \in Uids}

\* the outcomes of the addNode hook chain
Hooks == {"pass", "veto", "transform"}

(* -------------------------------------------------------- the collection *)

\* does node n match the query q ({ $uid } or { id })
Matches(n, q) == IF q.uid # NoUid THEN n.uid = q.uid ELSE n.id = q.id

\* collection.findOne(query): the matching node, or null
findOne(d, q) ==
  IF \E n \in d : Matches(n, q) THEN CHOOSE n \in d : Matches(n, q) ELSE NoNode

\* a findAndRemove whose query matches nothing
findAndRemoveNothing(d, u) == d

\* collection.findAndRemove({ $uid }): every node with that $uid leaves
findAndRemove(d, u) == {n \in d : n.uid # u}

\* the collection's unique index on id: would storing node clash with a
\* node held in another row
DuplicateKey(d, node) == \E n \in d : n.loki # node.loki /\ n.id = node.id

\* collection.insert(node): the row counter advances, the node gets its
\* row, and the unique index rejects a duplicate id (the insert throws)
insert(d, m, node) ==
  LET row == [node EXCEPT !.loki = m + 1] IN
  IF node.loki # NoLoki \/ DuplicateKey(d, row)
    THEN [ok |-> FALSE, data |-> d, maxId |-> m + 1, node |-> row]
    ELSE [ok |-> TRUE, data |-> d \cup {row}, maxId |-> m + 1, node |-> row]

\* an update that does not consult the unique index
updateUnchecked(d, node) ==
  IF node.loki = NoLoki \/ ~(\E n \in d : n.loki = node.loki)
    THEN [ok |-> FALSE, data |-> d]
    ELSE [ok |-> TRUE, data |-> {n \in d : n.loki # node.loki} \cup {node}]

\* collection.update(node): the row with node's $loki is replaced, unless
\* there is no such row or the unique index rejects the new id
update(d, node) ==
  IF node.loki = NoLoki \/ ~(\E n \in d : n.loki = node.loki)
       \/ DuplicateKey(d, node)
    THEN [ok |-> FALSE, data |-> d]
    ELSE [ok |-> TRUE, data |-> {n \in d : n.loki # node.loki} \cup {node}]

(* ------------------------------------------------------- collaborators *)

\* normalizeNodeOptions(options, this, true): the canonical candidate;
\* id and $uid are carried over as the caller gave them
normalizeNodeOptions(options) ==
  [id |-> options.id, uid |-> options.uid, loki |-> NoLoki, val |-> options.val]

\* the other content a transforming hook gives a node
TransformVal(v) == IF v = "v1" THEN "v2" ELSE "v1"

\* hooks.addNode.call(options, this): null on veto, else the node; a
\* candidate that came without a handle leaves the chain with handle h
hookCall(options, hook, h) ==
  IF hook = "veto" THEN NoNode
  ELSE [options EXCEPT
          !.uid = IF options.uid # NoUid THEN options.uid ELSE h,
          !.val = IF hook = "transform" THEN TransformVal(options.val)
                  ELSE options.val]

\* a handle no stored node holds (the set is empty when all are held)
FreshUid(d) ==
  LET free == {u \in Uids : \A n \in d : n.uid # u} IN
  {u \in free : \A v \in free : u <= v}

\* the handles a candidate may leave the chain with: the one it came
\* with, else the replaced node's own or one no stored node holds
Handles(d, options, oldNode) ==
  IF options.uid # NoUid THEN {options.uid}
  ELSE FreshUid(d) \cup (IF oldNode = NoNode THEN {} ELSE {oldNode.uid})

(* ------------------------------------------------------- results of a call *)

NoError == [kind |-> "none", id |-> NoId]

\* what one call leaves behind: the collection, the events emitted in
\* order, what the call returned or threw, the collection right after the
\* call's own commit, and how often the hook chain ran
Outcome(d, m, events, status, ret, err, post, hooks) ==
  [data |-> d, maxId |-> m, events |-> events, status |-> status,
   ret |-> ret, err |-> err, post |-> post, hooks |-> hooks]

\* the record of an emitted event; seen is what getNode(node.id) gives
\* a listener at the moment of the emit
Event(type, node, old, d) ==
  [type |-> type, node |-> node, old |-> old, seen |-> findOne(d, ById(node.id))]

RECURSIVE emit(_, _, _, _, _)
RECURSIVE removeNodeOn(_, _, _)

\* emit that runs the listeners of every event, whatever the event
emitToAll(type, node, old, d, m) ==
  LET ev == Event(type, node, old, d) IN
  IF listeners # {} /\ type # "remove"
    THEN LET inner == removeNodeOn(d, m, ById(node.id)) IN
         [data |-> inner.data, events |-> <<ev>> \o inner.events]
    ELSE [data |-> d, events |-> <<ev>>]

\* this._events.emit(type, ...): listeners run synchronously; the listener
\* of this model, when registered for the event, calls removeNode(node.id)
emit(type, node, old, d, m) ==
  LET ev == Event(type, node, old, d) IN
  IF type \in listeners
    THEN LET inner == removeNodeOn(d, m, ById(node.id)) IN
         [data |-> inner.data, events |-> <<ev>> \o inner.events]
    ELSE [data |-> d, events |-> <<ev>>]

\* removeNode that gives null for a node it does not find
removeNodeOnLenient(d, m, query) ==
  LET node == findOne(d, query) IN
  IF node = NoNode
    THEN Outcome(d, m, <<>>, "null", NoNode, NoError, d, 0)
    ELSE LET removed == findAndRemove(d, node.uid)
             e == emit("remove", node, NoNode, removed, m)
         IN Outcome(e.data, m, e.events, "null", NoNode, NoError, removed, 0)

\* removeNode that emits no 'remove' event
removeNodeOnQuiet(d, m, query) ==
  LET node == findOne(d, query) IN
  IF node = NoNode
    THEN Outcome(d, m, <<>>, "throw", NoNode,
                 [kind |-> "TypeError", id |-> NoId], d, 0)
    ELSE LET removed == findAndRemove(d, node.uid)
         IN Outcome(removed, m, <<>>, "null", NoNode, NoError, removed, 0)

\* removeNode(id) on collection d
removeNodeOn(d, m, query) ==
  LET node == findOne(d, query) IN
  IF node = NoNode
    THEN \* node.$uid of null: a TypeError that names no id
         Outcome(d, m, <<>>, "throw", NoNode,
                 [kind |-> "TypeError", id |-> NoId], d, 0)
    ELSE LET removed == findAndRemove(d, node.uid)
             e == emit("remove", node, NoNode, removed, m)
         IN Outcome(e.data, m, e.events, "null", NoNode, NoError, removed, 0)

\* lines 123-124: the node takes the id given (else the prior id) and
\* the prior node's $loki
carryOver(node, options, oldNode) ==
  [node EXCEPT !.id = IF options.id # NoId THEN options.id ELSE oldNode.id,
               !.loki = oldNode.loki]

\* lines 66-75 with the emit ahead of the insert
commitAddEmitFirst(d, m, node) ==
  LET ins == insert(d, m, node) IN
  IF ~ins.ok
    THEN Outcome(ins.data, ins.maxId, <<>>, "null", NoNode, NoError, ins.data, 1)
    ELSE LET e == emit("add", ins.node, NoNode, d, ins.maxId)
         IN Outcome(ins.data, ins.maxId, e.events, "ok", ins.node, NoError,
                    ins.data, 1)

\* lines 66-75: insert; a rejected insert is warned about and gives null;
\* else 'add' is emitted and the node returned
commitAdd(d, m, node) ==
  LET ins == insert(d, m, node) IN
  IF ~ins.ok
    THEN Outcome(ins.data, ins.maxId, <<>>, "null", NoNode, NoError, ins.data, 1)
    ELSE LET e == emit("add", ins.node, NoNode, ins.data, ins.maxId)
         IN Outcome(e.data, ins.maxId, e.events, "ok", ins.node, NoError,
                    ins.data, 1)

\* addNode with the candidate used when the hook chain gives nothing
addNodeOnFallback(d, m, raw, hook, h) ==
  LET options == normalizeNodeOptions(raw)
      node == hookCall(options, hook, h)
  IN commitAdd(d, m, IF node = NoNode THEN hookCall(options, "pass", h) ELSE node)

\* addNode(options) on collection d
addNodeOn(d, m, raw, hook, h) ==
  LET options == normalizeNodeOptions(raw)
      node == hookCall(options, hook, h)
  IN IF node = NoNode
       THEN Outcome(d, m, <<>>, "null", NoNode, NoError, d, 1)
       ELSE commitAdd(d, m, node)

\* lines 119-121 returning null without the removal
vetoUpdateSilent(d, m, oldNode) ==
  Outcome(d, m, <<>>, "null", NoNode, NoError, d, 1)

\* lines 119-121: a vetoed update removes the prior node by its id
vetoUpdate(d, m, oldNode) ==
  [removeNodeOn(d, m, ById(oldNode.id)) EXCEPT !.hooks = 1]

\* lines 126-135 as a removal followed by an insert into a new row
commitUpdateReinsert(d, m, node, oldNode) ==
  IF DuplicateKey(d, node)
    THEN Outcome(d, m, <<>>, "null", NoNode, NoError, d, 1)
    ELSE LET ins == insert(findAndRemove(d, oldNode.uid), m,
                           [node EXCEPT !.loki = NoLoki])
             e == emit("update", ins.node, oldNode, ins.data, ins.maxId)
         IN Outcome(e.data, ins.maxId, e.events, "ok", ins.node, NoError,
                    ins.data, 1)

\* lines 126-135 with a catch block that does not return
commitUpdateNoReturn(d, m, node, oldNode) ==
  LET upd == update(d, node)
      e == emit("update", node, oldNode, upd.data, m)
  IN Outcome(e.data, m, e.events, "ok", node, NoError, upd.data, 1)

\* lines 126-135: update; a rejected update is warned about and gives
\* null; else 'update' is emitted and the node returned
commitUpdate(d, m, node, oldNode) ==
  LET upd == update(d, node) IN
  IF ~upd.ok
    THEN Outcome(d, m, <<>>, "null", NoNode, NoError, d, 1)
    ELSE LET e == emit("update", node, oldNode, upd.data, m)
         IN Outcome(e.data, m, e.events, "ok", node, NoError, upd.data, 1)

\* the query updateNode looks the prior node up with (lines 108-111)
Locator(options) ==
  IF options.uid # NoUid THEN ByUid(options.uid) ELSE ById(options.id)

\* updateNode with the hook chain called ahead of the lookup
updateNodeOnHookFirst(d, m, raw, hook, h) ==
  LET options == normalizeNodeOptions(raw)
      hooked == hookCall(options, hook, h)
      oldNode == findOne(d, Locator(options))
  IN IF oldNode = NoNode
       THEN Outcome(d, m, <<>>, "throw", NoNode,
                    [kind |-> "Error", id |-> options.id], d, 1)
       ELSE IF hooked = NoNode
              THEN vetoUpdate(d, m, oldNode)
              ELSE commitUpdate(d, m, carryOver(hooked, options, oldNode), oldNode)

\* updateNode(options) on collection d
updateNodeOn(d, m, raw, hook, h) ==
  LET options == normalizeNodeOptions(raw)
      oldNode == findOne(d, Locator(options))
  IN IF oldNode = NoNode
       THEN Outcome(d, m, <<>>, "throw", NoNode,
                    [kind |-> "Error", id |-> options.id], d, 0)
       ELSE LET hooked == hookCall(options, hook, h) IN
            IF hooked = NoNode
              THEN vetoUpdate(d, m, oldNode)
              ELSE commitUpdate(d, m, carryOver(hooked, options, oldNode), oldNode)

(* ---------------------------------------------------- the schema registry *)
(* createSchema (lib/graphql/createSchema.js) fills a registry of types and *)
(* builds the schema from it.                                               *)
(*                                                                         *)
(* A type is a record [name, kind, isUserDefined, isNode, mustHave,         *)
(* fields, resolvers]; a field is a record [type, plural, args, resolve].   *)
(* A field's resolve is the chain of functions its resolver stands for:     *)
(* the head is the function a query invokes, the rest is the resolver that  *)
(* function is handed as info.originalResolver. The empty chain is a field  *)
(* without a resolve function. An argument map gives, for every argument    *)
(* name, the definition the argument was taken from.                        *)

\* entries of context.types createSchema goes through
MaxTypes == 2
\* entries of context.schemas
MaxSchemas == 1
\* entries of context.resolvers
MaxOverlays == 2

\* a type descriptor without options.name
NoName == "none"
\* a resolver overlay without a 'type' property
NoType == "none"
\* a map without keys
EmptyMap == [k \in {} |-> "none"]
\* {...f, ...g}
Merge(f, g) ==
  [k \in DOMAIN f \cup DOMAIN g |-> IF k \in DOMAIN g THEN g[k] ELSE f[k]]
\* one function of a resolver chain
Fn(name, n) == [fn |-> name, n |-> n]
\* graphql's defaultFieldResolver
defaultFieldResolver == Fn("default", 0)

Field(type, plural, args, resolve) ==
  [type |-> type, plural |-> plural, args |-> args, resolve |-> resolve]

Type(name, kind, fields) ==
  [name |-> name, kind |-> kind, isUserDefined |-> FALSE, isNode |-> FALSE,
   mustHave |-> FALSE, fields |-> fields, resolvers |-> EmptyMap]

\* a resolver a type carries under a name: its arguments and its function
Resolver(owner, name, argNames) ==
  [args |-> [k \in argNames |-> name], resolve |-> Fn(owner, 0), found |-> TRUE]
\* no resolver
NoResolver == [args |-> EmptyMap, resolve |-> defaultFieldResolver, found |-> FALSE]

\* the table of resolvers for scalar types (./resolvers)
scalarTypeResolvers(typeName) ==
  IF typeName = "Date" THEN Resolver("Date", "Date", {"format"}) ELSE NoResolver

\* the registry after the types every schema has were added
\* (initMustHaveTypes, and the root Query the composer creates)
initMustHaveTypes ==
  [n \in {"Query", "Date", "String", "Node"} |->
     IF n = "Query" THEN Type(n, "Object", EmptyMap)
     ELSE IF n = "Node" THEN [Type(n, "Interface", EmptyMap) EXCEPT !.mustHave = TRUE]
     ELSE [Type(n, "Scalar", EmptyMap) EXCEPT !.mustHave = TRUE]]

\* schemaComposer.set(name, type)
Put(r, type) ==
  [n \in DOMAIN r \cup {type.name} |-> IF n = type.name THEN type ELSE r[n]]

\* the type the nodes schema creates for the store's content type: it
\* implements Node and carries the findOne and findMany resolvers
AuthorType ==
  [Type("Author", "Object",
        [f \in {"date"} |-> Field("Date", FALSE, EmptyMap, <<>>)])
     EXCEPT !.isNode = TRUE,
            !.resolvers = [n \in {"findOne", "findMany"} |->
                             IF n = "findOne"
                             THEN Resolver("Author.findOne", "findOne", {"id"})
                             ELSE Resolver("Author.findMany", "findMany", {"sort"})]]

\* the root fields of ./metaData, ./nodes and ./pages
FieldGroups ==
  [f \in {"metaData", "author", "page"} |->
     IF f = "author"
     THEN Field("Author", FALSE, [k \in {"id"} |-> "nodes"], <<Fn("nodes", 0)>>)
     ELSE Field("String", FALSE, EmptyMap, <<Fn(f, 0)>>)]

\* ./pages, ./nodes and ./metaData and the three Query.addFields
addFieldGroups(r) ==
  LET withAuthor == Put(r, AuthorType)
  IN [withAuthor EXCEPT !["Query"].fields = Merge(@, FieldGroups)]

(* the type declarations a plugin may hand in (context.types) *)

\* a Post whose author is one Author, no field with a resolve of its own
PostA ==
  [type |-> "Object", name |-> "Post",
   fields |-> [f \in {"author", "date", "title"} |->
                 IF f = "author" THEN Field("Author", FALSE, EmptyMap, <<>>)
                 ELSE IF f = "date" THEN Field("Date", FALSE, EmptyMap, <<>>)
                 ELSE Field("String", FALSE, EmptyMap, <<>>)]]
\* a Post whose authors are a list, with resolvers and arguments of its own
PostB ==
  [type |-> "Object", name |-> "Post",
   fields |-> [f \in {"author", "date", "title"} |->
                 IF f = "author"
                 THEN Field("Author", TRUE, [k \in {"sort"} |-> "field"],
                            <<Fn("custom", 0)>>)
                 ELSE IF f = "date"
                 THEN Field("Date", FALSE, [k \in {"locale"} |-> "field"],
                            <<Fn("custom", 0)>>)
                 ELSE Field("String", FALSE, EmptyMap, <<>>)]]
Media == [type |-> "Union", name |-> "Media", fields |-> EmptyMap]
\* a declaration of the root type itself
UserQuery ==
  [type |-> "Object", name |-> "Query",
   fields |-> [f \in {"date"} |-> Field("Date", FALSE, EmptyMap, <<>>)]]
Nameless == [PostA EXCEPT !.name = NoName]

Declarations == {PostA, PostB, Media, UserQuery, Nameless}

\* what addTypes is given: an SDL string, an array of descriptors or one
\* descriptor (types is what the SDL or the descriptors declare, in order)
TypesOrSDL ==
  {[form |-> "sdl", types |-> <<d>>] : d \in {PostA, PostB}}
  \cup {[form |-> "single", types |-> <<d>>] : d \in Declarations}
  \cup {[form |-> "array", types |-> <<>>]}
  \cup {[form |-> "array", types |-> <<d1, d2>>] : d1, d2 \in Declarations}

\* an external schema: its root query fields and its other named types
Schemas ==
  {[query |-> [f \in {"ext"} |-> Field("Ext", FALSE, EmptyMap, <<Fn("ext", 0)>>)],
    types |-> {"Ext"}]}

\* a resolver overlay for one field: {[typeName]: {[fieldName]: options}};
\* hasArgs and type say whether options.args and options.type are there
Overlays ==
  {[typeName |-> tf[1], fieldName |-> tf[2], hasArgs |-> a,
    args |-> IF a THEN [k \in {"sort"} |-> "overlay"] ELSE EmptyMap,
    type |-> t] :
     tf \in {<<"Post", "author">>, <<"Post", "title">>, <<"Post", "extra">>,
             <<"Nope", "x">>},
     a \in BOOLEAN, t \in {NoType, "String"}}

(* what createSchema's steps make of the registry *)

\* a step's result: the registry it leaves and whether it threw
Done(r) == [reg |-> r, thrown |-> FALSE]
Thrown(r) == [reg |-> r, thrown |-> TRUE]

\* createType: the composer of a descriptor, or the error for a missing name
\* (the path of a top-level descriptor is [options.name], of length 1)
createTypeUnnamed(type) ==
  [composer |-> Type(type.name, type.type, type.fields), thrown |-> FALSE]
createType(type) ==
  [composer |-> Type(type.name, type.type, type.fields),
   thrown |-> type.name = NoName]

\* addCreatedType: schemaComposer.add(type), the isUserDefined extension and
\* addSchemaMustHaveType
addCreatedTypeKeepFirst(r, type) ==
  IF type.name \in DOMAIN r /\ r[type.name].isUserDefined THEN r
  ELSE Put(r, [type EXCEPT !.isUserDefined = TRUE, !.mustHave = TRUE])
addCreatedType(r, type) ==
  Put(r, [type EXCEPT !.isUserDefined = TRUE, !.mustHave = TRUE])

\* the forEach of addTypes over an array of descriptors
RECURSIVE createAndAdd(_, _)
createAndAdd(r, types) ==
  IF types = <<>> THEN Done(r)
  ELSE LET t == createType(Head(types))
       IN IF t.thrown THEN Thrown(r)
          ELSE createAndAdd(addCreatedType(r, t.composer), Tail(types))

\* the forEach of addTypes over the types of an SDL string
RECURSIVE addSDLTypes(_, _)
addSDLTypes(r, types) ==
  IF types = <<>> THEN r
  ELSE addSDLTypes(
         addCreatedType(r, Type(Head(types).name, Head(types).type,
                                Head(types).fields)),
         Tail(types))

addTypesOn(r, typeOrSDL) ==
  IF typeOrSDL.form = "sdl"
  THEN Done(addSDLTypes(r, typeOrSDL.types))
  ELSE createAndAdd(r, typeOrSDL.types)

\* getFieldResolver: the resolver wired to a field, by the field's type
getFieldResolverSwapped(r, typeName, fieldName) ==
  LET field == r[typeName].fields[fieldName]
      fieldComposer == field.type
  IN IF /\ fieldComposer \in DOMAIN r
        /\ r[fieldComposer].kind = "Object"
        /\ r[fieldComposer].isNode
     THEN r[fieldComposer].resolvers[IF field.plural THEN "findOne" ELSE "findMany"]
     ELSE scalarTypeResolvers(fieldComposer)
getFieldResolverAlways(r, typeName, fieldName) ==
  LET field == r[typeName].fields[fieldName]
      fieldComposer == field.type
  IN IF /\ fieldComposer \in DOMAIN r
        /\ r[fieldComposer].kind = "Object"
        /\ r[fieldComposer].isNode
     THEN r[fieldComposer].resolvers[IF field.plural THEN "findMany" ELSE "findOne"]
     ELSE scalarTypeResolvers("Date")
getFieldResolver(r, typeName, fieldName) ==
  LET field == r[typeName].fields[fieldName]
      fieldComposer == field.type
  IN IF /\ fieldComposer \in DOMAIN r
        /\ r[fieldComposer].kind = "Object"
        /\ r[fieldComposer].isNode
     THEN r[fieldComposer].resolvers[IF field.plural THEN "findMany" ELSE "findOne"]
     ELSE scalarTypeResolvers(fieldComposer)

\* the extendField of processObjectFields: the arguments of the resolver
\* under the field's own, and a resolve that calls the field's own resolve,
\* or else the resolver's, with the resolver's as info.originalResolver
wireFieldAutoFirst(field, resolver) ==
  [field EXCEPT !.args = Merge(resolver.args, field.args),
                !.resolve = <<resolver.resolve>> \o
                            (IF field.resolve = <<>> THEN <<resolver.resolve>>
                             ELSE field.resolve)]
wireField(field, resolver) ==
  [field EXCEPT !.args = Merge(resolver.args, field.args),
                !.resolve = IF field.resolve = <<>>
                            THEN <<resolver.resolve, resolver.resolve>>
                            ELSE <<Head(field.resolve), resolver.resolve>>]

\* processObjectFields: the type as the wiring leaves it
processObjectFieldsOfAny(r, typeName) ==
  LET typeComposer == r[typeName]
  IN IF typeComposer.kind # "Object" THEN typeComposer
     ELSE IF typeName = "Query" THEN typeComposer
     ELSE [typeComposer EXCEPT !.fields =
             [f \in DOMAIN typeComposer.fields |->
                LET resolver == getFieldResolver(r, typeName, f)
                IN IF resolver.found
                   THEN wireField(typeComposer.fields[f], resolver)
                   ELSE typeComposer.fields[f]]]
processObjectFields(r, typeName) ==
  LET typeComposer == r[typeName]
  IN IF typeComposer.kind # "Object" THEN typeComposer
     ELSE IF typeName = "Query" THEN typeComposer
     ELSE IF ~typeComposer.isUserDefined THEN typeComposer
     ELSE [typeComposer EXCEPT !.fields =
             [f \in DOMAIN typeComposer.fields |->
                LET resolver == getFieldResolver(r, typeName, f)
                IN IF resolver.found
                   THEN wireField(typeComposer.fields[f], resolver)
                   ELSE typeComposer.fields[f]]]

\* the loop over schemaComposer.values()
wireAll(r) == [n \in DOMAIN r |-> processObjectFields(r, n)]

\* addSchema: the external root fields go onto Query, the other types of
\* the external schema are kept in the schema
addSchemaOn(r, ext) ==
  LET withTypes ==
        [n \in DOMAIN r \cup ext.types |->
           IF n \in ext.types
           THEN [(IF n \in DOMAIN r THEN r[n] ELSE Type(n, "Object", EmptyMap))
                   EXCEPT !.mustHave = TRUE]
           ELSE r[n]]
  IN [withTypes EXCEPT !["Query"].fields = Merge(@, ext.query)]

\* the resolve of addResolvers' extendField: it calls the overlay's resolve
\* with the field's resolve so far, or else the default resolver, as
\* info.originalResolver
WrappedDefault(fn, resolve) == <<fn, defaultFieldResolver>>
Wrapped(fn, resolve) ==
  <<fn>> \o (IF resolve = <<>> THEN <<defaultFieldResolver>> ELSE resolve)

\* addResolvers for one field of one type; fn is options.resolve
addResolversMerging(r, resolvers, fn) ==
  LET typeName == resolvers.typeName
      fieldName == resolvers.fieldName
  IN IF typeName \notin DOMAIN r \/ r[typeName].kind # "Object" THEN Thrown(r)
     ELSE IF fieldName \in DOMAIN r[typeName].fields
     THEN LET field == r[typeName].fields[fieldName]
          IN Done([r EXCEPT ![typeName].fields[fieldName] =
                    Field(IF resolvers.type # NoType THEN resolvers.type
                          ELSE field.type,
                          IF resolvers.type # NoType THEN FALSE ELSE field.plural,
                          Merge(field.args, resolvers.args),
                          Wrapped(fn, field.resolve))])
     ELSE IF resolvers.type = NoType THEN Thrown(r)
     ELSE Done([r EXCEPT ![typeName].fields =
                 Merge(@, [f \in {fieldName} |->
                             Field(resolvers.type, FALSE, resolvers.args, <<fn>>)])])
addResolversKeepType(r, resolvers, fn) ==
  LET typeName == resolvers.typeName
      fieldName == resolvers.fieldName
  IN IF typeName \notin DOMAIN r \/ r[typeName].kind # "Object" THEN Thrown(r)
     ELSE IF fieldName \in DOMAIN r[typeName].fields
     THEN LET field == r[typeName].fields[fieldName]
          IN Done([r EXCEPT ![typeName].fields[fieldName] =
                    Field(field.type, field.plural,
                          IF resolvers.hasArgs THEN resolvers.args ELSE field.args,
                          Wrapped(fn, field.resolve))])
     ELSE IF resolvers.type = NoType THEN Thrown(r)
     ELSE Done([r EXCEPT ![typeName].fields =
                 Merge(@, [f \in {fieldName} |->
                             Field(resolvers.type, FALSE, resolvers.args, <<fn>>)])])
addResolversOn(r, resolvers, fn) ==
  LET typeName == resolvers.typeName
      fieldName == resolvers.fieldName
  IN IF typeName \notin DOMAIN r \/ r[typeName].kind # "Object" THEN Thrown(r)
     ELSE IF fieldName \in DOMAIN r[typeName].fields
     THEN LET field == r[typeName].fields[fieldName]
          IN Done([r EXCEPT ![typeName].fields[fieldName] =
                    Field(IF resolvers.type # NoType THEN resolvers.type
                          ELSE field.type,
                          IF resolvers.type # NoType THEN FALSE ELSE field.plural,
                          IF resolvers.hasArgs THEN resolvers.args ELSE field.args,
                          Wrapped(fn, field.resolve))])
     ELSE IF resolvers.type = NoType THEN Thrown(r)
     ELSE Done([r EXCEPT ![typeName].fields =
                 Merge(@, [f \in {fieldName} |->
                             Field(resolvers.type, FALSE, resolvers.args, <<fn>>)])])

\* no schema (createSchema has not returned one)
NoSchema == [built |-> FALSE, types |-> EmptyMap]
\* no step of createSchema taken yet
NoStep == [name |-> "none", input |-> EmptyMap, thrown |-> FALSE]

(* -------------------------------------------------------------- the store *)

\* getNode(id) on the current collection
getNode(id) == findOne(data, ById(id))

\* no call is being reported: the caller is free to make the next one
Idle ==
  [op |-> "idle", arg |-> ById(NoId), hook |-> "none", pre |-> {},
   listening |-> {}, out |-> Outcome({}, 0, <<>>, "null", NoNode, NoError, {}, 0)]

Init ==
  /\ data = {}
  /\ maxId = 0
  /\ listeners = {}
  /\ last = Idle
  /\ emitted = [add |-> 0, remove |-> 0]
  /\ pc = "start"
  /\ reg = EmptyMap
  /\ step = NoStep
  /\ hist = <<>>
  /\ schema = NoSchema

\* how many events of a type a call emitted
Emitted(events, type) ==
  Cardinality({i \in 1..Len(events) : events[i].type = type})

\* the call's effect on the store, and the record of the call; emitted
\* counts the 'add' and 'remove' events since the store was created
Apply(op, arg, hook, out) ==
  /\ last = Idle
  /\ data' = out.data
  /\ maxId' = out.maxId
  /\ last' = [op |-> op, arg |-> arg,
              hook |-> IF out.hooks > 0 THEN hook ELSE "none", pre |-> data,
              listening |-> listeners, out |-> out]
  /\ emitted' = [add |-> emitted.add + Emitted(out.events, "add"),
                  remove |-> emitted.remove + Emitted(out.events, "remove")]
  /\ UNCHANGED listeners
  /\ UNCHANGED schemaVars

addNode(raw, hook, h) ==
  /\ maxId < MaxLoki
  /\ h \in Handles(data, raw, NoNode)
  /\ Apply("addNode", raw, hook,
           addNodeOn(data, maxId, raw, hook, h))

updateNode(raw, hook, h) ==
  /\ h \in Handles(data, raw, findOne(data, Locator(raw)))
  /\ Apply("updateNode", raw, hook,
           updateNodeOn(data, maxId, raw, hook, h))

removeNode(query) ==
  Apply("removeNode", query, "pass", removeNodeOn(data, maxId, query))

\* on(eventName, fn) with fn = node => removeNode(node.id)
on(eventName) ==
  /\ last = Idle
  /\ eventName \notin listeners
  /\ listeners' = listeners \cup {eventName}
  /\ UNCHANGED <<data, maxId, last, emitted>>
  /\ UNCHANGED schemaVars

\* off(eventName, fn)
off(eventName) ==
  /\ last = Idle
  /\ eventName \in listeners
  /\ listeners' = listeners \ {eventName}
  /\ UNCHANGED <<data, maxId, last, emitted>>
  /\ UNCHANGED schemaVars

\* the caller has taken the result of its call and goes on (one logical
\* timeline: the next call starts only after the previous one returned)
Continue ==
  /\ last # Idle
  /\ last' = Idle
  /\ UNCHANGED <<data, maxId, listeners, emitted>>
  /\ UNCHANGED schemaVars

Next ==
  \/ \E raw \in AddOptions, hook \in Hooks, h \in Uids : addNode(raw, hook, h)
  \/ \E raw \in UpdateOptions, hook \in Hooks, h \in Uids : updateNode(raw, hook, h)
  \/ \E query \in Queries : removeNode(query)
  \/ \E eventName \in ListenedEvents : on(eventName)
  \/ \E eventName \in ListenedEvents : off(eventName)
  \/ Continue

Spec == Init /\ [][Next]_vars

TypeOK ==
  /\ \A n \in data : n.id \in Ids /\ n.uid \in Uids /\ n.loki \in 1..maxId
  /\ maxId \in 0..MaxLoki
  /\ listeners \subseteq ListenedEvents
  /\ emitted.add \in 0..MaxLoki /\ emitted.remove \in 0..emitted.add

(* ----------------------------------------------------------- createSchema *)
(* One run of createSchema(store, context): pc is where the run stands,     *)
(* reg the schemaComposer's registry, step the step just taken (with the    *)
(* registry it started from), hist the steps taken so far, schema what the  *)
(* run returned.                                                            *)

\* how many steps of a kind the run has taken
Taken(name) == Cardinality({i \in 1..Len(hist) : hist[i] = name})

\* a step of the run and the record of it
Step(name, input, result, to) ==
  /\ reg' = result.reg
  /\ step' = [name |-> name, input |-> input, thrown |-> result.thrown,
              pre |-> reg]
  /\ hist' = Append(hist, name)
  /\ pc' = IF result.thrown THEN "failed" ELSE to
  /\ UNCHANGED storeVars

\* new SchemaComposer(), initMustHaveTypes and the directives
newSchemaComposer ==
  /\ pc = "start"
  /\ Step("new", EmptyMap, Done(initMustHaveTypes), "types")
  /\ UNCHANGED schema

\* types.forEach(typeOrSDL => addTypes(schemaComposer, typeOrSDL))
addTypes(typeOrSDL) ==
  /\ pc = "types"
  /\ Taken("addTypes") < MaxTypes
  /\ Step("addTypes", typeOrSDL, addTypesOn(reg, typeOrSDL), "types")
  /\ UNCHANGED schema

\* the pages, nodes and metaData schemas and their fields on Query
addFields ==
  /\ pc = "types"
  /\ Step("addFields", EmptyMap, Done(addFieldGroups(reg)), "fields")
  /\ UNCHANGED schema

\* for (const typeComposer of schemaComposer.values()) processObjectFields
processAllObjectFields ==
  /\ pc = "fields"
  /\ Step("processObjectFields", EmptyMap, Done(wireAll(reg)), "wired")
  /\ UNCHANGED schema

\* schemas.forEach(schema => addSchema(schemaComposer, schema))
addSchemaBeforeWiring(ext) ==
  /\ pc = "fields"
  /\ Taken("addSchema") < MaxSchemas
  /\ Step("addSchema", ext, Done(addSchemaOn(reg, ext)), "fields")
  /\ UNCHANGED schema
addSchema(ext) ==
  /\ pc = "wired"
  /\ Taken("addSchema") < MaxSchemas
  /\ Step("addSchema", ext, Done(addSchemaOn(reg, ext)), "wired")
  /\ UNCHANGED schema

\* resolvers.forEach(resolvers => addResolvers(schemaComposer, resolvers))
addResolvers(resolvers) ==
  /\ pc \in {"wired", "overlaid"}
  /\ Taken("addResolvers") < MaxOverlays
  /\ Step("addResolvers", resolvers,
          addResolversOn(reg, resolvers, Fn("overlay", Taken("addResolvers") + 1)),
          "overlaid")
  /\ UNCHANGED schema

\* return schemaComposer.buildSchema()
buildSchema ==
  /\ pc \in {"wired", "overlaid"}
  /\ Step("buildSchema", EmptyMap, Done(reg), "done")
  /\ schema' = [built |-> TRUE, types |-> reg]

SchemaNext ==
  \/ newSchemaComposer
  \/ \E typeOrSDL \in TypesOrSDL : addTypes(typeOrSDL)
  \/ addFields
  \/ processAllObjectFields
  \/ \E ext \in Schemas : addSchema(ext)
  \/ \E resolvers \in Overlays : addResolvers(resolvers)
  \/ buildSchema

SchemaSpec == Init /\ [][SchemaNext]_vars

SchemaTypeOK ==
  /\ pc \in {"start", "types", "fields", "wired", "overlaid", "done", "failed"}
  /\ Len(hist) <= 4 + MaxTypes + MaxSchemas + MaxOverlays
  /\ schema.built <=> pc = "done"
  /\ \A n \in DOMAIN reg : reg[n].name = n

(* ----------------------------------------------------------- the claims *)

\* the call just made, and what it left behind
out == last.out
Made(op) == last.op = op
\* the node updateNode looked up before the call
Prior == findOne(last.pre, Locator(last.arg))
\* the content the hook chain hands on for the call's candidate
Handed == IF last.hook = "transform" THEN TransformVal(last.arg.val) ELSE last.arg.val
\* the nodes a 'remove' or 'update' event of the call is about
Touched ==
  {out.events[i].node : i \in {j \in 1..Len(out.events) : out.events[j].type = "remove"}}
  \cup {out.events[i].old : i \in {j \in 1..Len(out.events) : out.events[j].type = "update"}}
\* did a listener of the call itself call back into the store
Reentered == \E i \in 1..Len(out.events) :
               out.events[i].type \in last.listening

\* every stored node has its own $uid and its own $loki row
HandlesDistinct ==
  \A n1, n2 \in data : (n1.uid = n2.uid \/ n1.loki = n2.loki) => n1 = n2

\* C1: a node added under an id not yet present is what getNode(id) gives
\* until a remove or update event is about it, and after a successful
\* removeNode(id) getNode(id) gives null.
C1_GetAfterAddAndRemove ==
  /\ (Made("addNode") /\ out.status = "ok" /\ ~Reentered)
       => /\ getNode(last.arg.id) = out.ret
          /\ out.ret.id = last.arg.id /\ out.ret.val = Handed
  /\ (last # Idle) => \A n \in last.pre \ Touched : getNode(n.id) = n
  /\ (Made("removeNode") /\ out.status = "null" /\ last.arg.id # NoId)
       => getNode(last.arg.id) = NoNode

C1_Witness ==
  /\ Made("removeNode") /\ out.status = "null" /\ last.arg.id = "a"
  /\ \E n \in last.pre : n.id = "a" /\ n.val = "v2"
  /\ \E n \in data : n.id = "b"

\* C2: an addNode whose hook chain gives a falsy value returns null,
\* leaves the collection as it was and emits no event.
C2_VetoedAdd ==
  (Made("addNode") /\ last.hook = "veto")
    => /\ out.status = "null" /\ out.ret = NoNode
       /\ data = last.pre
       /\ out.events = <<>>

C2_Witness ==
  /\ Made("addNode") /\ last.hook = "veto"
  /\ last.pre # {} /\ \A n \in last.pre : n.id # last.arg.id

\* C3: an updateNode of an existing node whose hook chain gives a falsy
\* value removes the prior node (one node fewer, getNode of its id null),
\* emits exactly one event, a 'remove' carrying the prior node, and
\* returns null.
C3_VetoedUpdate ==
  (Made("updateNode") /\ last.hook = "veto")
    => /\ Prior \in last.pre
       /\ data = last.pre \ {Prior}
       /\ Cardinality(data) = Cardinality(last.pre) - 1
       /\ getNode(Prior.id) = NoNode
       /\ Len(out.events) = 1
       /\ out.events[1].type = "remove" /\ out.events[1].node = Prior
       /\ out.status = "null" /\ out.ret = NoNode

C3_Witness ==
  /\ Made("updateNode") /\ last.hook = "veto"
  /\ Cardinality(last.pre) = 2 /\ Cardinality(data) = 1

C5_NotFoundIsFatal ==
  /\ ((Made("updateNode") \/ Made("removeNode")) /\ Prior = NoNode)
       => out.status = "throw"
  /\ out.status = "throw"
       => /\ data = last.pre
          /\ out.events = <<>>
          /\ Prior = NoNode

C5_Witness ==
  /\ Made("removeNode") /\ out.status = "throw"
  /\ last.pre # {} /\ last.arg.id # NoId

\* the id the node of a successful-hook updateNode is stored under
NewId == IF last.arg.id # NoId THEN last.arg.id ELSE Prior.id

\* does the collection reject the call's insert or update
Rejected ==
  \/ /\ Made("addNode") /\ last.hook \notin {"veto", "none"}
     /\ \E n \in last.pre : n.id = last.arg.id
  \/ /\ Made("updateNode") /\ last.hook \notin {"veto", "none"}
     /\ \E n \in last.pre : n # Prior /\ n.id = NewId

C7_UniqueIds ==
  \A n1, n2 \in data : n1.id = n2.id => n1 = n2

C7_Witness ==
  /\ Made("updateNode") /\ out.status = "ok" /\ last.hook = "transform"
  /\ last.arg.uid # NoUid /\ last.arg.id # NoId /\ last.arg.id # Prior.id
  /\ \E n \in data : n.id = last.arg.id

\* C8: a successful mutation emits its event after its commit and before
\* it returns: at the emit, getNode gives the added node, gives null for
\* the removed node's id, and gives the new node of an update whose old
\* node is the node as stored before the call.
C8_EmitAfterCommit ==
  /\ (last # Idle /\ out.status = "ok")
       => /\ Len(out.events) >= 1
          /\ out.events[1].node = out.ret
          /\ out.events[1].type = (IF Made("addNode") THEN "add" ELSE "update")
  /\ (Made("removeNode") /\ out.status = "null")
       => /\ Len(out.events) = 1
          /\ out.events[1].type = "remove" /\ out.events[1].node = Prior
  /\ \A i \in 1..Len(out.events) :
       LET e == out.events[i] IN
       /\ e.type = "add" => /\ e.seen = e.node
                             /\ e.node \in out.post /\ e.node \notin last.pre
       /\ e.type = "remove" => /\ e.seen = NoNode
                                /\ e.node \in last.pre \cup out.post
                                /\ e.node \notin data
       /\ e.type = "update" => /\ e.seen = e.node
                                /\ e.old = Prior /\ e.old \in last.pre
                                /\ e.node \in out.post

C8_Witness ==
  /\ Made("updateNode") /\ out.status = "ok"
  /\ out.events[1].type = "update"
  /\ out.events[1].old.val # out.events[1].node.val
  /\ out.events[1].seen.val = out.events[1].node.val

\* C9 as stated: between the start and the return of a call nothing but
\* the call's own commit takes effect, also when a listener invoked by
\* the call calls removeNode.
C9_NoMutationMidCall ==
  (last # Idle) => data = out.post

\* C9 as amended: a call whose listeners do not call back into the store
\* returns with the collection as its own commit left it, having emitted
\* at most its own event; a listener that calls removeNode during the
\* emit takes effect before the outer call returns.
C9_NoMutationMidCallUnlessReentered ==
  /\ (last # Idle /\ ~Reentered) => /\ data = out.post
                                     /\ Len(out.events) <= 1
  /\ (last # Idle /\ Reentered) => /\ Len(out.events) = 2
                                    /\ out.events[2].type = "remove"
                                    /\ out.events[2].node = out.ret
                                    /\ data = out.post \ {out.ret}

C9_Witness ==
  /\ Made("addNode") /\ out.status = "ok" /\ ~Reentered
  /\ "update" \in last.listening
  /\ Cardinality(data) = 2

\* C10: every error thrown by updateNode and removeNode for a node that
\* is absent carries the id that was not found.
C10_ErrorNamesId ==
  out.status = "throw" => out.err.id # NoId

(* ---------------------------------------------- the claims on createSchema *)

\* the step just taken, if it went through
Did(name) == step.name = name /\ ~step.thrown
\* where in the run the steps of a kind are
At(name) == {i \in 1..Len(hist) : hist[i] = name}
\* the steps that register types or fields from a source of types
TypeSources == {"new", "addTypes", "addFields", "addSchema"}
\* the types the wiring pass works on
Wirable(r) ==
  {n \in DOMAIN r : r[n].kind = "Object" /\ n # "Query" /\ r[n].isUserDefined}
\* is the field's type a registered Object type that implements Node
NodeCapable(r, field) ==
  /\ field.type \in DOMAIN r
  /\ r[field.type].kind = "Object"
  /\ r[field.type].isNode
\* the fields of the wirable types, as <<type, field>>
WirableFields(r) ==
  {tf \in Wirable(r) \X {"author", "date", "title", "extra"} :
     tf[2] \in DOMAIN r[tf[1]].fields}
\* the field an overlay step found in place
Overlaid ==
  /\ Did("addResolvers")
  /\ step.input.fieldName \in DOMAIN step.pre[step.input.typeName].fields
FieldBefore == step.pre[step.input.typeName].fields[step.input.fieldName]
FieldAfter == reg[step.input.typeName].fields[step.input.fieldName]

C12_WiringOnlyUserObjects ==
  Did("processObjectFields") =>
    /\ DOMAIN reg = DOMAIN step.pre
    /\ \A n \in DOMAIN reg \ Wirable(step.pre) : reg[n] = step.pre[n]
    /\ \A n \in Wirable(step.pre) :
         reg[n] = [step.pre[n] EXCEPT !.fields = reg[n].fields]

C12_Witness ==
  /\ Did("processObjectFields")
  /\ reg["Query"].isUserDefined
  /\ "date" \in DOMAIN reg["Query"].fields
  /\ "Post" \in DOMAIN reg
  /\ reg["Post"] # step.pre["Post"]
  /\ "date" \in DOMAIN reg["Author"].fields

\* the resolver the wiring pass has for a field: findOne or findMany of a
\* Node type, or the entry for a scalar type
AutoFor(r, field) ==
  IF NodeCapable(r, field)
  THEN r[field.type].resolvers[IF field.plural THEN "findMany" ELSE "findOne"]
  ELSE scalarTypeResolvers(field.type)

\* C13 (as stated): a wired field that had a resolver of its own invokes
\* the auto-wired resolver and hands it the field's own resolver as
\* info.originalResolver.
C13_AutoResolverInvoked ==
  Did("processObjectFields") =>
    \A tf \in WirableFields(step.pre) :
      LET before == step.pre[tf[1]].fields[tf[2]]
          after == reg[tf[1]].fields[tf[2]]
      IN (before.resolve # <<>> /\ AutoFor(step.pre, before).found) =>
           /\ Head(after.resolve) = AutoFor(step.pre, before).resolve
           /\ Tail(after.resolve) = before.resolve

\* C13: a wired field that had a resolver of its own still invokes its own
\* resolver, which is handed the auto-wired resolver as
\* info.originalResolver; a wired field without one invokes the auto-wired
\* resolver.
C13_OwnResolverInvoked ==
  Did("processObjectFields") =>
    \A tf \in WirableFields(step.pre) :
      LET before == step.pre[tf[1]].fields[tf[2]]
          after == reg[tf[1]].fields[tf[2]]
      IN AutoFor(step.pre, before).found =>
           /\ Len(after.resolve) = 2
           /\ after.resolve[2] = AutoFor(step.pre, before).resolve
           /\ after.resolve[1] =
                IF before.resolve # <<>> THEN Head(before.resolve)
                ELSE AutoFor(step.pre, before).resolve

C13_Witness ==
  /\ Did("processObjectFields")
  /\ "Post" \in DOMAIN reg
  /\ step.pre["Post"].fields["author"].resolve = <<Fn("custom", 0)>>
  /\ reg["Post"].fields["author"].resolve =
       <<Fn("custom", 0), Fn("Author.findMany", 0)>>

\* C14: for a field whose type is an Object type that implements Node the
\* wiring pass takes the type's findOne resolver when the field is
\* singular and its findMany resolver when the field is a list; the field
\* gets that resolver's arguments under its own.
C14_FindOneOrFindMany ==
  Did("processObjectFields") =>
    \A tf \in WirableFields(step.pre) :
      LET before == step.pre[tf[1]].fields[tf[2]]
          after == reg[tf[1]].fields[tf[2]]
          target == step.pre[before.type]
      IN NodeCapable(step.pre, before) =>
           /\ before.plural =>
                /\ after.resolve[Len(after.resolve)] = target.resolvers["findMany"].resolve
                /\ DOMAIN target.resolvers["findMany"].args \subseteq DOMAIN after.args
           /\ ~before.plural =>
                /\ after.resolve[Len(after.resolve)] = target.resolvers["findOne"].resolve
                /\ DOMAIN target.resolvers["findOne"].args \subseteq DOMAIN after.args
           /\ \A k \in DOMAIN before.args : after.args[k] = before.args[k]
           /\ after.type = before.type /\ after.plural = before.plural

C14_Witness ==
  /\ Did("processObjectFields")
  /\ "Post" \in DOMAIN reg
  /\ ~reg["Post"].fields["author"].plural
  /\ reg["Post"].fields["author"].resolve =
       <<Fn("Author.findOne", 0), Fn("Author.findOne", 0)>>
  /\ reg["Post"].fields["author"].args = [k \in {"id"} |-> "findOne"]

C17_OverlayKeepsType ==
  Overlaid =>
    FieldAfter.type = FieldBefore.type /\ FieldAfter.plural = FieldBefore.plural

\* C17: after an overlay on an existing field the field's type is the
\* overlay's when the overlay has a type property, and the type it had
\* before when the overlay has none.
C17_OverlayTypeWins ==
  Overlaid =>
    IF step.input.type # NoType
    THEN FieldAfter.type = step.input.type /\ ~FieldAfter.plural
    ELSE FieldAfter.type = FieldBefore.type /\ FieldAfter.plural = FieldBefore.plural

C17_Witness ==
  /\ Overlaid
  /\ step.input.type = "String"
  /\ FieldBefore.type = "Author"
  /\ FieldAfter.type = "String"

\* C18: the overlays are applied after the wiring pass and before the
\* schema is built, and the wrapper an overlay puts on an existing field
\* invokes the overlay's resolver with the resolver the field had right
\* before as info.originalResolver: the wired wrapper, the wrapper of the
\* overlay before, or the default field resolver when the field had none.
C18_OverlayGetsResolverBefore ==
  /\ \A k \in At("addResolvers") :
       /\ \E i \in At("processObjectFields") : i < k
       /\ \A j \in At("buildSchema") : k < j
  /\ Overlaid =>
       /\ Head(FieldAfter.resolve) = Fn("overlay", Cardinality(At("addResolvers")))
       /\ Tail(FieldAfter.resolve) =
            IF FieldBefore.resolve = <<>> THEN <<defaultFieldResolver>>
            ELSE FieldBefore.resolve

C18_Witness ==
  /\ Overlaid
  /\ FieldAfter.resolve = <<Fn("overlay", 2), Fn("overlay", 1),
                            Fn("custom", 0), Fn("Author.findMany", 0)>>

\* C19: createSchema throws, and returns no schema, when a declared type
\* descriptor has no name or when an overlay is for a field that is not
\* there and has no type property; an overlay with a type property for a
\* field that is not there adds the field and the run goes on.
C19_MissingNameOrTypeIsFatal ==
  /\ step.thrown <=> pc = "failed"
  /\ pc = "failed" => ~schema.built
  /\ (/\ step.name = "addTypes"
      /\ step.input.form # "sdl"
      /\ \E i \in 1..Len(step.input.types) : step.input.types[i].name = NoName)
       => pc = "failed"
  /\ (/\ step.name = "addResolvers"
      /\ step.input.typeName \in DOMAIN step.pre
      /\ step.input.fieldName \notin DOMAIN step.pre[step.input.typeName].fields)
       => IF step.input.type = NoType
          THEN pc = "failed"
          ELSE /\ pc = "overlaid"
               /\ FieldAfter = Field(step.input.type, FALSE, step.input.args,
                                     <<Fn("overlay", Cardinality(At("addResolvers")))>>)

C19_Witness ==
  /\ pc = "failed"
  /\ step.name = "addTypes"
  /\ step.input.form = "array"
  /\ step.input.types[2].name = NoName
  /\ "Post" \in DOMAIN reg

\* C20 (as stated): an addTypes registration under a name that is already
\* registered is rejected and the registered type stays as it was.
C20_ReRegistrationRejected ==
  step.name = "addTypes" =>
    \A i \in 1..Len(step.input.types) :
      step.input.types[i].name \in DOMAIN step.pre =>
        /\ step.thrown
        /\ reg[step.input.types[i].name] = step.pre[step.input.types[i].name]

\* C20: an addTypes registration under a name that is already registered is
\* accepted and replaces the registered type: the registry holds under a
\* name the type that was registered last under it.
C20_LastRegistrationWins ==
  Did("addTypes") =>
    \A i \in 1..Len(step.input.types) :
      LET type == step.input.types[i]
      IN (\A j \in (i + 1)..Len(step.input.types) :
            step.input.types[j].name # type.name) =>
           /\ reg[type.name].fields = type.fields
           /\ reg[type.name].kind = type.type
           /\ reg[type.name].isUserDefined

C20_Witness ==
  /\ Did("addTypes")
  /\ "Post" \in DOMAIN step.pre
  /\ step.pre["Post"].fields = PostA.fields
  /\ reg["Post"].fields = PostB.fields

(* ------------------------------------------- the claims on the store, ctd. *)

\* C21: from the empty store on, the number of stored nodes is the number
\* of 'add' events emitted less the number of 'remove' events emitted,
\* whatever the calls were (vetoed, rejected and not-found ones too); a
\* call that emits nothing but 'update' events leaves the number as it was.
C21_CountIsAddsLessRemoves ==
  /\ Cardinality(data) = emitted.add - emitted.remove
  /\ (last # Idle /\ Emitted(out.events, "add") = 0
                  /\ Emitted(out.events, "remove") = 0)
       => Cardinality(data) = Cardinality(last.pre)

C21_Witness ==
  /\ Made("updateNode") /\ last.hook = "veto"
  /\ emitted.add = 3 /\ emitted.remove = 2
  /\ Cardinality(data) = 1

\* C22: the addNode hook chain runs exactly once in every addNode call and
\* exactly once in every updateNode call that finds its node, on the
\* normalized candidate both times (its veto and its transform act alike);
\* an updateNode that does not find its node throws without running it.
C22_HookOncePerCall ==
  /\ Made("addNode") => out.hooks = 1 /\ last.hook # "none"
  /\ Made("updateNode") =>
       IF Prior # NoNode
       THEN out.hooks = 1 /\ last.hook # "none"
       ELSE /\ out.hooks = 0 /\ last.hook = "none"
            /\ out.status = "throw"
            /\ out.events = <<>> /\ data = last.pre
  /\ Made("removeNode") => out.hooks = 0
  /\ (Made("addNode") \/ Made("updateNode")) =>
       /\ last.hook = "veto" => out.status = "null" /\ out.ret = NoNode
       /\ out.status = "ok" =>
            /\ last.hook \in {"pass", "transform"}
            /\ out.ret.val = Handed
            /\ out.ret.id = NewId

C22_Witness ==
  /\ Made("updateNode")
  /\ Prior = NoNode
  /\ last.pre # {}
  /\ out.hooks = 0

====
